---------------------------- MODULE Spec2Model ----------------------------
(***************************************************************************)
(* Market signing and bracket resolution of pantonr/weath.                 *)
(*                                                                         *)
(*   ka_bid.py                   main: observation -> listing -> bracket   *)
(*                               selection -> order, one series at a time  *)
(*   kalshi_past_bids_winfo.py   main: orders -> event listing -> market   *)
(*                               detail -> settlement row -> sheet         *)
(*                                                                         *)
(* Tickers are sequences of one-character strings.  Temperatures and       *)
(* strikes are integers counted in HALF degrees (21.5 is 43), so that the  *)
(* half-integer strikes of the tickers stay exact.  Money is counted in    *)
(* cents.  Python's None is the empty tuple and a present value v is <<v>>.*)
(***************************************************************************)
EXTENDS Integers, Sequences, FiniteSets, TLC

VARIABLES
    \* ---- ticker parsing (strike_from_ticker, strike_sort_key)
    tk_ticker,      \* the ticker handed to the parsers
    tk_strike,      \* result of ka_bid.strike_from_ticker, or Unset
    tk_key,         \* result of kalshi_past_bids_winfo strike_sort_key, or Unset
    tk_event,       \* result of derive_event_ticker, or Unset
    \* ---- ka_bid.py main
    pc,             \* position of main: "observe", "list", "resolve", "order", "done"
    idx,            \* index in MARKETS of the series being processed
    signer,         \* what KALSHI_PRIVATE_KEY_PEM allows: "ok", "bad_key", "sign_fails"
    temp,           \* parsed NOAA temperature of the series (degrees), or None
    headers,        \* headers of the market-listing request
    listing,        \* r: the answer to the market-listing request, or None
    markets,        \* listed markets whose ticker contains kalshi_day
    parsed,         \* (strike, ticker) pairs, sorted by strike
    chosen_ticker,  \* the selected ticker, or None
    fallback,       \* TRUE once the "ABOVE TOP BRACKET" branch has been taken
    sent,           \* Kalshi requests issued for the series being processed
    attempted,      \* series whose loop body has started, in order
    failed,         \* series for which a failure was printed
    exit_code,      \* None while main runs, then the exit status of the process
    \* ---- kalshi_past_bids_winfo.py main
    w_pc,           \* "start", "loop", "done", "crashed" (an exception left main)
    orders,         \* what fetch_orders returned
    oi,             \* index of the order the loop is at
    rows,           \* the rows built so far
    event_markets_cache,
    market_cache,
    sheet,          \* None, or the rows rebuild_sheet wrote
    w_error,        \* the call whose exception left main, or ""
    event_calls,    \* event tickers fetch_event_markets was called with, in order
    market_calls,   \* tickers fetch_market was called with, in order
    \* ---- settlement of one fill (the loop body after the fetches)
    st_order,       \* the order
    st_response,    \* the answer to the market-detail request
    st_row          \* the row built from them, or Unset

tickerVars == <<tk_ticker, tk_strike, tk_key, tk_event>>
winfoVars == <<w_pc, orders, oi, rows, event_markets_cache, market_cache, sheet,
               w_error, event_calls, market_calls>>
settleVars == <<st_order, st_response, st_row>>
bidVars == <<pc, idx, signer, temp, headers, listing, markets, parsed, chosen_ticker,
             fallback, sent, attempted, failed, exit_code>>
vars == <<tickerVars, bidVars, winfoVars, settleVars>>

(***************************************************************************)
(* Bounds of the model.                                                    *)
(***************************************************************************)
MaxTickerLen == 5
MaxListing == 2
MinTemp == 20
MaxTemp == 25
MaxOrders == 2
MaxShares == 2
MaxPrice == 100

(***************************************************************************)
(* Values.                                                                 *)
(***************************************************************************)
None == <<>>
Some(v) == <<v>>
\* a result not computed yet, and a computed one
Unset == [set |-> FALSE]
Result(v) == [set |-> TRUE, val |-> v]
NL == "\n"
\* the element of a one-element set: The({F(x) : x \in {e}}) is F(e), with e
\* evaluated once
The(S) == CHOOSE v \in S : TRUE

\* the characters tickers are drawn from in the parser specification
TickerChars == {"K", "-", "B", "T", "1", "5", ".", NL}

RECURSIVE SeqsUpTo(_, _)
SeqsUpTo(S, n) ==
    IF n = 0 THEN {<<>>}
    ELSE LET shorter == SeqsUpTo(S, n - 1)
         IN  shorter \cup {Append(s, c) : s \in {x \in shorter : Len(x) = n - 1}, c \in S}

TickerInputs == SeqsUpTo(TickerChars, MaxTickerLen)

(***************************************************************************)
(* Regular expressions of the two strike parsers.                          *)
(***************************************************************************)
IsDigit(c) == c \in {"0", "1", "2", "3", "4", "5", "6", "7", "8", "9"}

DigitChars == <<"0", "1", "2", "3", "4", "5", "6", "7", "8", "9">>

DigitVal(c) == (CHOOSE d \in 1..10 : DigitChars[d] = c) - 1

\* the positions at which Python's `$` matches: the end of the string, and
\* just before a newline that ends the string
DollarPositions(s) ==
    {Len(s)} \cup (IF Len(s) > 0 /\ s[Len(s)] = NL THEN {Len(s) - 1} ELSE {})

\* u matches  -(?:B|T)(-?\d+(?:\.5)?)  in full; without minusOK the `-?` is absent
BucketFullMatch(u, minusOK) ==
    /\ Len(u) >= 3
    /\ u[1] = "-"
    /\ u[2] \in {"B", "T"}
    /\ \E sg \in (IF minusOK THEN {0, 1} ELSE {0}), fr \in {0, 2} :
          /\ sg = 1 => u[3] = "-"
          /\ Len(u) - fr >= 3 + sg
          /\ \A k \in (3 + sg)..(Len(u) - fr) : IsDigit(u[k])
          /\ fr = 2 => (u[Len(u) - 1] = "." /\ u[Len(u)] = "5")

\* re.search(pattern + "$", s): the matches, as [start, stop] of the whole match
BucketMatches(s, minusOK) ==
    {m \in [start : 1..Len(s), stop : DollarPositions(s)] :
        /\ m.start <= m.stop
        /\ BucketFullMatch(SubSeq(s, m.start, m.stop), minusOK)}

\* re.search returns the leftmost match
BucketSearch(s, minusOK) ==
    LET ms == BucketMatches(s, minusOK)
    IN  IF ms = {} THEN None
        ELSE Some(CHOOSE m \in ms : \A o \in ms : m.start <= o.start)

\* group(1) of a match: everything after the "-B" / "-T"
Group1(s, m) == SubSeq(s, m.start + 2, m.stop)

\* int(ds) for a sequence of digits
DecimalValue(ds) ==
    LET upTo[n \in 0..Len(ds)] ==
            IF n = 0 THEN 0 ELSE 10 * upTo[n - 1] + DigitVal(ds[n])
    IN  upTo[Len(ds)]

\* float(g) for g of the shape -?\d+(\.5)?, in half degrees
FloatHalves(g) ==
    LET neg  == g[1] = "-"
        half == Len(g) >= 2 /\ g[Len(g) - 1] = "."
        from == IF neg THEN 2 ELSE 1
        to   == IF half THEN Len(g) - 2 ELSE Len(g)
        mag  == The({2 * DecimalValue(ds) + (IF half THEN 1 ELSE 0) :
                        ds \in {SubSeq(g, from, to)}})
    IN  IF neg THEN 0 - mag ELSE mag

\* float(m.group(1)) of the leftmost match, or None without a match
BucketStrike(s, minusOK) ==
    LET Value(t) ==
            The({IF m = None THEN None
                 ELSE The({Some(FloatHalves(g)) : g \in {Group1(t, m[1])}}) :
                 m \in {BucketSearch(t, minusOK)}})
    IN  The({Value(t) : t \in {s}})

\* ka_bid.py: m = re.search(r'-(?:B|T)(\d+(?:\.5)?)$', ticker)
strike_from_ticker(ticker) == BucketStrike(ticker, FALSE)

\* kalshi_past_bids_winfo.py: the sentinel 10**9 of strike_sort_key, in half degrees
NoStrikeKey == 2 * 1000000000

\* kalshi_past_bids_winfo.py: m2 = re.search(r"-(?:B|T)(-?\d+(?:\.5)?)$", t)
strike_sort_key(t) ==
    The({IF m2 = None THEN NoStrikeKey ELSE m2[1] : m2 \in {BucketStrike(t, TRUE)}})

(***************************************************************************)
(* ka_bid.py: configuration.                                               *)
(***************************************************************************)
LIVE_TRADING == TRUE

\* the keys of MARKETS, in the order MARKETS.items() yields them
MARKETS == <<"KXHIGHNY", "KXLOWTNYC", "KXHIGHMIA", "KXLOWTMIA">>

\* kalshi_fragment_for_date(tomorrow), and the fragment of another day
kalshi_day == <<"2", "6", "J", "A", "N", "2", "8">>
OtherDay == <<"2", "6", "J", "A", "N", "2", "9">>

(***************************************************************************)
(* ka_bid.py: the signer.  load_private_key and sign_pss_text catch every  *)
(* exception and return None; kalshi_headers turns either into {}.         *)
(***************************************************************************)
EmptyHeaders == [h \in {} |-> ""]

load_private_key(sg) == IF sg = "bad_key" THEN None ELSE Some("private_key")

sign_pss_text(private_key, sg) == IF sg = "sign_fails" THEN None ELSE Some("sig")

kalshi_headers(method, path, sg) ==
    LET key == load_private_key(sg)
    IN  IF key = None THEN EmptyHeaders
        ELSE LET sig == sign_pss_text(key[1], sg)
             IN  IF sig = None THEN EmptyHeaders
                 ELSE [h \in {"KALSHI-ACCESS-KEY", "KALSHI-ACCESS-SIGNATURE",
                              "KALSHI-ACCESS-TIMESTAMP", "Content-Type"} |->
                          CASE h = "KALSHI-ACCESS-KEY" -> "key_id"
                            [] h = "KALSHI-ACCESS-SIGNATURE" -> sig[1]
                            [] h = "KALSHI-ACCESS-TIMESTAMP" -> "ts"
                            [] h = "Content-Type" -> "application/json"]

(***************************************************************************)
(* ka_bid.py: what the outside world can answer.                           *)
(***************************************************************************)
\* get_noaa_temp: the parsed temperature, or None (request failed, no
\* matching period, no number in the text)
NoaaResults == {None} \cup {Some(t) : t \in MinTemp..MaxTemp}

Tk(day, suffix) == <<"K", "X", "-">> \o day \o suffix

\* tickers the listing can hold; <<>> is a market without a "ticker" field
ListedTickers ==
    { Tk(kalshi_day, <<"-", "B", "2", "1", ".", "5">>),
      Tk(kalshi_day, <<"-", "B", "2", "2", ".", "5">>),
      Tk(kalshi_day, <<"-", "B", "2", "3", ".", "5">>),
      Tk(kalshi_day, <<"-", "T", "2", "3">>),
      Tk(kalshi_day, <<"-", "B", "2", "3">>),
      Tk(kalshi_day, <<"-", "T", "-", "1", "3">>),
      Tk(OtherDay, <<"-", "B", "2", "2", ".", "5">>),
      <<>> }

RECURSIVE ListsUpTo(_, _)
\* the sequences without repetition of at most n elements of S
ListsUpTo(S, n) ==
    IF n = 0 THEN {<<>>}
    ELSE LET shorter == ListsUpTo(S, n - 1)
             longest == {y \in shorter : Len(y) = n - 1}
             InList(l, x) == \E i \in 1..Len(l) : l[i] = x
         IN  shorter \cup
             UNION {{Append(l, x) : x \in {z \in S : ~InList(l, z)}} : l \in longest}

\* requests.get of the listing: a RequestException (timeout, connection,
\* raise_for_status), a body that is no JSON, or the "markets" of the body
ListingResponses ==
    {[kind |-> "request_exception"], [kind |-> "bad_json"]}
    \cup {[kind |-> "ok", markets |-> l] : l \in ListsUpTo(ListedTickers, MaxListing)}

\* requests.post of the order
OrderResponses == {"exception", "status_400", "status_201", "status_201_bad_json"}

(***************************************************************************)
(* ka_bid.py: bracket selection, lines 207-236.                            *)
(***************************************************************************)
Contains(s, sub) ==
    \E i \in 1..(Len(s) - Len(sub) + 1) : SubSeq(s, i, i + Len(sub) - 1) = sub

\* line 207-210 with the test of the day left out
MarketsOfAnyDay(listed) == listed

\* markets = [m for m in r.json().get("markets", []) if kalshi_day in m.get("ticker", "")]
MarketsOfDay(listed) ==
    LET from[i \in 1..(Len(listed) + 1)] ==
            IF i > Len(listed) THEN <<>>
            ELSE IF Contains(listed[i], kalshi_day) THEN <<listed[i]>> \o from[i + 1]
                 ELSE from[i + 1]
    IN  from[1]

\* lines 217-221: parsed.append((strike, m["ticker"])) for the markets with a strike
ParseMarkets(ms) ==
    LET from[i \in 1..(Len(ms) + 1)] ==
            IF i > Len(ms) THEN <<>>
            ELSE The({IF strike # None
                      THEN <<[strike |-> strike[1], ticker |-> ms[i]]>>
                      ELSE <<>> :
                      strike \in {strike_from_ticker(ms[i])}}) \o from[i + 1]
    IN  from[1]

\* the position element i of ps takes in an ascending, stable sort by strike
RankByStrike(ps, i) ==
    1 + Cardinality({j \in 1..Len(ps) :
                        \/ ps[j].strike < ps[i].strike
                        \/ (ps[j].strike = ps[i].strike /\ j < i)})

\* parsed.sort(key=lambda x: x[0]): ascending and stable
SortByStrike(ps) ==
    [r \in 1..Len(ps) |-> ps[CHOOSE i \in 1..Len(ps) : RankByStrike(ps, i) = r]]

\* the loop with the upper bound of a bracket included: temp <= strike + 1
ScanBracketsClosed(ps, t) ==
    LET from[i \in 1..(Len(ps) + 1)] ==
            IF i > Len(ps) THEN None
            ELSE IF 2 * t < ps[i].strike THEN from[i + 1]
            ELSE IF 2 * t <= ps[i].strike + 2 THEN Some(ps[i].ticker)
            ELSE from[i + 1]
    IN  from[1]

\* the for loop of lines 226-232: the ticker it breaks with, or None when it
\* runs to the end; from[i] is the loop from bracket i on; t in degrees,
\* strikes in half degrees
ScanBrackets(ps, t) ==
    LET from[i \in 1..(Len(ps) + 1)] ==
            IF i > Len(ps) THEN None
            ELSE IF 2 * t < ps[i].strike THEN from[i + 1]
            ELSE IF 2 * t < ps[i].strike + 2 THEN Some(ps[i].ticker)
            ELSE from[i + 1]
    IN  from[1]

\* `not chosen_ticker`
Falsy(x) == x = None \/ x = Some(<<>>)

\* the selection falling back to parsed[0] instead of parsed[-1]
SelectBracketLowest(ps, t) ==
    LET chosen == ScanBrackets(ps, t)
    IN  IF ~Falsy(chosen) THEN [error |-> FALSE, ticker |-> chosen, fallback |-> FALSE]
        ELSE IF ps = <<>> THEN [error |-> TRUE, ticker |-> chosen, fallback |-> FALSE]
        ELSE [error |-> FALSE, ticker |-> Some(ps[1].ticker), fallback |-> TRUE]

\* lines 225-236: [ticker, fallback], or [error] when parsed[-1] raises IndexError
SelectBracket(ps, t) ==
    LET chosen == ScanBrackets(ps, t)
    IN  IF ~Falsy(chosen) THEN [error |-> FALSE, ticker |-> chosen, fallback |-> FALSE]
        ELSE IF ps = <<>> THEN [error |-> TRUE, ticker |-> chosen, fallback |-> FALSE]
        ELSE [error |-> FALSE, ticker |-> Some(ps[Len(ps)].ticker), fallback |-> TRUE]

(***************************************************************************)
(* ka_bid.py: main.                                                        *)
(***************************************************************************)
NSeries == Len(MARKETS)

\* the state of main before the loop, and of the variables of main in the
\* specifications that do not run it
BidStart(sg) ==
    /\ pc = "observe"
    /\ idx = 1
    /\ signer = sg
    /\ temp = None
    /\ headers = EmptyHeaders
    /\ listing = None
    /\ markets = <<>>
    /\ parsed = <<>>
    /\ chosen_ticker = None
    /\ fallback = FALSE
    /\ sent = <<>>
    /\ attempted = <<>>
    /\ failed = {}
    /\ exit_code = None

\* `continue`, and the end of the loop body: on to the next series
NextSeries ==
    /\ idx' = idx + 1
    /\ pc' = "observe"

\* the handler leaving main instead of going on with the next series
SeriesExceptReturn ==
    /\ failed' = failed \cup {MARKETS[idx]}
    /\ pc' = "done"
    /\ UNCHANGED idx

\* except Exception of lines 271-274: print, continue
SeriesExcept ==
    /\ failed' = failed \cup {MARKETS[idx]}
    /\ NextSeries

\* the handler ending the loop instead of going on with the next series
ListingExceptBreak ==
    /\ failed' = failed \cup {MARKETS[idx]}
    /\ idx' = NSeries + 1
    /\ pc' = "observe"

\* except requests.exceptions.RequestException of lines 202-205: print, continue
ListingExcept ==
    /\ failed' = failed \cup {MARKETS[idx]}
    /\ NextSeries

\* line 180 with the test left out
NoaaFailedNever(obs) == FALSE

\* line 180: if temp is None
NoaaFailed(obs) == obs = None

\* lines 171-183: the loop body starts, get_noaa_temp answers
Observe ==
    /\ pc = "observe"
    /\ idx <= NSeries
    /\ \E obs \in NoaaResults :
          /\ temp' = obs
          /\ attempted' = Append(attempted, MARKETS[idx])
          /\ headers' = EmptyHeaders
          /\ listing' = None
          /\ markets' = <<>>
          /\ parsed' = <<>>
          /\ chosen_ticker' = None
          /\ fallback' = FALSE
          /\ sent' = <<>>
          /\ IF NoaaFailed(obs)
             THEN /\ failed' = failed \cup {MARKETS[idx]}
                  /\ NextSeries
             ELSE /\ pc' = "list"
                  /\ UNCHANGED <<idx, failed>>
    /\ UNCHANGED <<signer, exit_code, tickerVars, winfoVars, settleVars>>

\* lines 185-215: sign, request the listing, keep the markets of the day
ListMarkets ==
    /\ pc = "list"
    /\ LET h == kalshi_headers("GET", "/trade-api/v2/markets", signer)
       IN  /\ headers' = h
           /\ sent' = Append(sent, [method |-> "GET", series |-> MARKETS[idx],
                                     headers |-> h])
    /\ \E r \in ListingResponses :
          /\ listing' = Some(r)
          /\ IF r.kind = "request_exception"
             THEN /\ ListingExcept
                  /\ UNCHANGED markets
             ELSE IF r.kind = "bad_json"
             THEN /\ SeriesExcept
                  /\ UNCHANGED markets
             ELSE
               /\ markets' = MarketsOfDay(r.markets)
               /\ IF markets' = <<>>
                  THEN /\ failed' = failed \cup {MARKETS[idx]}
                       /\ NextSeries
                  ELSE /\ pc' = "resolve"
                       /\ UNCHANGED <<idx, failed>>
    /\ UNCHANGED <<signer, temp, parsed, chosen_ticker, fallback, attempted,
                   exit_code, tickerVars, winfoVars, settleVars>>

\* lines 217-236: parse the strikes, sort, select
ResolveBracket ==
    /\ pc = "resolve"
    /\ \E pm \in {ParseMarkets(markets)} :
       \E ps \in {SortByStrike(pm)} :
       \E sel \in {SelectBracket(ps, temp[1])} :
           /\ parsed' = ps
           /\ chosen_ticker' = sel.ticker
           /\ fallback' = sel.fallback
           /\ IF sel.error
              THEN SeriesExcept
              ELSE /\ pc' = "order"
                   /\ UNCHANGED <<idx, failed>>
    /\ UNCHANGED <<signer, temp, headers, listing, markets, sent, attempted,
                   exit_code, tickerVars, winfoVars, settleVars>>

\* lines 241-270: sign and post the order; every failure is printed
SubmitOrder ==
    /\ pc = "order"
    /\ IF LIVE_TRADING
       THEN \E r \in OrderResponses :
               /\ sent' = Append(sent,
                     [method |-> "POST", series |-> MARKETS[idx],
                      headers |-> kalshi_headers("POST", "/trade-api/v2/orders", signer),
                      ticker |-> chosen_ticker[1]])
               /\ failed' = IF r = "status_201" THEN failed
                            ELSE failed \cup {MARKETS[idx]}
       ELSE UNCHANGED <<sent, failed>>
    /\ NextSeries
    /\ UNCHANGED <<signer, temp, headers, listing, markets, parsed, chosen_ticker,
                   fallback, attempted, exit_code, tickerVars, winfoVars, settleVars>>

\* line 280: the loop is over, main returns
Finish ==
    /\ pc = "observe"
    /\ idx > NSeries
    /\ pc' = "done"
    /\ exit_code' = Some(0)
    /\ UNCHANGED <<idx, signer, temp, headers, listing, markets, parsed,
                   chosen_ticker, fallback, sent, attempted, failed, tickerVars, winfoVars, settleVars>>

(***************************************************************************)
(* kalshi_past_bids_winfo.py: dictionaries and texts.                      *)
(*                                                                         *)
(* A dict is a function from its keys; d.get(k) is None for a missing key. *)
(* The texts the settlement formats are sequences of characters, and "" is *)
(* the empty sequence.                                                     *)
(***************************************************************************)
MAX_OPTIONS == 10

EmptyDict == <<>>
Get(d, k) == IF k \in DOMAIN d THEN Some(d[k]) ELSE None
Merge(f, g) == [k \in DOMAIN f \cup DOMAIN g |-> IF k \in DOMAIN f THEN f[k] ELSE g[k]]

\* str.upper() and str.lower() on the words the API uses
Upper(w) ==
    CASE w \in {"yes", "YES", "Yes"} -> "YES"
      [] w \in {"no", "NO", "No"} -> "NO"
      [] w \in {"void", "VOID"} -> "VOID"
      [] OTHER -> w

Lower(w) ==
    CASE w \in {"yes", "YES", "Yes"} -> "yes"
      [] w \in {"no", "NO", "No"} -> "no"
      [] OTHER -> w

RECURSIVE IntText(_)
\* str(n) for n >= 0
IntText(n) == IF n < 10 THEN <<DigitChars[n + 1]>>
              ELSE IntText(n \div 10) \o <<DigitChars[(n % 10) + 1]>>

\* f"{cents / 100.0:.2f}"
MoneyText(cents) ==
    LET mag == IF cents < 0 THEN 0 - cents ELSE cents
    IN  (IF cents < 0 THEN <<"-">> ELSE <<>>)
        \o IntText(mag \div 100) \o <<".">>
        \o <<DigitChars[((mag % 100) \div 10) + 1], DigitChars[(mag % 10) + 1]>>

(***************************************************************************)
(* kalshi_past_bids_winfo.py: the reads.                                   *)
(***************************************************************************)
\* fetch_market, lines 114-121, for an answer that is no timeout
fetch_market(response) ==
    IF response.code # 200 THEN EmptyDict
    ELSE IF Get(response.body, "market") = None THEN EmptyDict
    ELSE response.body.market

\* the position market i takes in sorted(markets, key=strike_sort_key)
RankByKey(ms, i) ==
    1 + Cardinality({j \in 1..Len(ms) :
                        \/ strike_sort_key(ms[j].ticker) < strike_sort_key(ms[i].ticker)
                        \/ /\ strike_sort_key(ms[j].ticker) = strike_sort_key(ms[i].ticker)
                           /\ j < i})

\* fetch_event_markets, lines 123-141, for an answer that is no timeout
fetch_event_markets(response) ==
    IF response.code # 200 THEN <<>>
    ELSE LET ms == IF Get(response.body, "markets") = None THEN <<>>
                   ELSE response.body.markets
         IN  [r \in 1..Len(ms) |-> ms[CHOOSE i \in 1..Len(ms) : RankByKey(ms, i) = r]]

\* the last "-" of s, or 0
LastDash(s) ==
    LET at == {i \in 1..Len(s) : s[i] = "-"}
    IN  IF at = {} THEN 0 ELSE CHOOSE i \in at : \A j \in at : j <= i

\* derive_event_ticker with the pattern of ka_bid.py, which has no minus sign
derive_event_ticker_unsigned(ticker) ==
    LET bucket_match == BucketSearch(ticker, FALSE)
    IN  IF bucket_match # None THEN SubSeq(ticker, 1, bucket_match[1].start - 1)
        ELSE IF LastDash(ticker) > 0 THEN SubSeq(ticker, 1, LastDash(ticker) - 1)
        ELSE ticker

\* derive_event_ticker, lines 147-159
derive_event_ticker(ticker) ==
    LET bucket_match == BucketSearch(ticker, TRUE)
    IN  IF bucket_match # None THEN SubSeq(ticker, 1, bucket_match[1].start - 1)
        ELSE IF LastDash(ticker) > 0 THEN SubSeq(ticker, 1, LastDash(ticker) - 1)
        ELSE ticker

\* get_entry_price_cents, lines 164-178
get_entry_price_cents(order) ==
    LET side == Get(order, "side")
        rest == {i \in 1..4 :
                   Get(order, <<"price", "fill_price", "avg_price", "average_price">>[i]) # None}
    IN  IF side = Some("yes") /\ Get(order, "yes_price") # None THEN Get(order, "yes_price")
        ELSE IF side = Some("no") /\ Get(order, "no_price") # None THEN Get(order, "no_price")
        ELSE IF rest # {}
             THEN Get(order, <<"price", "fill_price", "avg_price", "average_price">>
                                [CHOOSE i \in rest : \A j \in rest : i <= j])
        ELSE None

(***************************************************************************)
(* kalshi_past_bids_winfo.py: the loop body of main.                       *)
(***************************************************************************)
\* a or b: a when it is truthy, else b; None, 0, "" are falsy
TruthyInt(x) == x # None /\ x[1] # 0
TruthyWord(x) == x # None /\ x[1] # ""
TruthyText(x) == x # None /\ x[1] # <<>>
OrInt(a, b) == IF TruthyInt(a) THEN a ELSE b
OrWord(a, b) == IF TruthyWord(a) THEN a ELSE b

\* lines 193-203: the fields of the order, and whether the loop skips it
OrderTicker(o) == Get(o, "ticker")
OrderSide(o) == Lower(OrWord(Get(o, "side"), Some(""))[1])
OrderShares(o) == OrInt(Get(o, "fill_count"), Some(0))[1]

Skipped(o) ==
    \/ ~TruthyText(OrderTicker(o))
    \/ OrderShares(o) = 0
    \/ get_entry_price_cents(o) = None
    \/ OrderSide(o) \notin {"yes", "no"}

\* line 237 with a missing result read as NO
MarketResultAssumeNo(market) == Upper(OrWord(Get(market, "result"), Some("no"))[1])

\* line 237
MarketResult(market) == Upper(OrWord(Get(market, "result"), Some(""))[1])

\* lines 239-243
CurrentYes(market) ==
    OrInt(OrInt(Get(market, "last_price"), Get(market, "yes_bid")), Get(market, "yes_ask"))

\* lines 245-250: round(implied, 4), counted in hundredths
ImpliedPct(side, current_yes) ==
    IF current_yes = None THEN None
    ELSE IF side = "yes" THEN Some(current_yes[1]) ELSE Some(100 - current_yes[1])

\* line 256
Win(side, market_result) ==
    (side = "yes" /\ market_result = "YES") \/ (side = "no" /\ market_result = "NO")

\* line 257 with the share count left out of the winnings
PnlCentsOneShare(win, price, shares) ==
    IF win THEN 100 - price ELSE 0 - (price * shares)

\* line 257, in cents
PnlCents(win, price, shares) ==
    IF win THEN (100 - price) * shares ELSE 0 - (price * shares)

\* lines 219-231: the marks of the first MAX_OPTIONS markets of the event
OptionMarks(ms, ticker, side) ==
    [i \in 1..MAX_OPTIONS |->
        IF i <= Len(ms) /\ ms[i].ticker = ticker
        THEN (IF side = "yes" THEN "YES" ELSE "NO") ELSE ""]

\* lines 220-226: the label of a market of the event
OptionLabel(m) ==
    OrWord(OrWord(OrWord(OrWord(OrWord(Get(m, "subtitle"), Get(m, "title")),
                                Get(m, "description")),
                         Get(m, "yes_title")),
                  Get(m, "no_title")),
           Some(""))[1]

\* lines 217-228: the labels of the first MAX_OPTIONS markets of the event
OptionLabels(ms) ==
    [i \in 1..MAX_OPTIONS |-> IF i <= Len(ms) THEN OptionLabel(ms[i]) ELSE ""]

\* lines 205-304: the row of an order that is not skipped, from the markets
\* of its event and the detail of its market
BuildRow(o, ms, market) ==
    LET ticker        == OrderTicker(o)[1]
        side          == OrderSide(o)
        shares        == OrderShares(o)
        price         == get_entry_price_cents(o)[1]
        market_result == MarketResult(market)
        current_yes   == CurrentYes(market)
        settled       == market_result \in {"YES", "NO"}
        win           == Win(side, market_result)
    IN  [ order_id      |-> OrWord(Get(o, "order_id"), Some(""))[1],
          event_ticker  |-> derive_event_ticker(ticker),
          ticker        |-> ticker,
          side          |-> side,
          shares        |-> shares,
          price         |-> price,
          total_cost    |-> MoneyText(price * shares),
          market_result |-> market_result,
          won_lost      |-> IF settled THEN (IF win THEN "WON" ELSE "LOST") ELSE "",
          pnl           |-> IF settled THEN MoneyText(PnlCents(win, price, shares))
                            ELSE <<>>,
          current_yes   |-> current_yes,
          implied_pct   |-> ImpliedPct(side, current_yes),
          option_marks  |-> OptionMarks(ms, ticker, side),
          option_labels |-> OptionLabels(ms) ]

(***************************************************************************)
(* kalshi_past_bids_winfo.py: what the outside world can answer.           *)
(***************************************************************************)
\* an HTTP answer; a timeout raises in requests.get
Timeout == [timeout |-> TRUE, code |-> 0, body |-> EmptyDict]
Answer(code, body) == [timeout |-> FALSE, code |-> code, body |-> body]

WT1 == <<"E", "-", "B", "2", "1">>
WT2 == <<"E", "-", "B", "2", "2", ".", "5">>
WT3 == <<"F", "-", "T", "-", "3">>

\* the orders fetch_orders can return
OrderPool ==
    { [order_id |-> "o1", ticker |-> WT1, side |-> "yes", fill_count |-> 1, yes_price |-> 35],
      [order_id |-> "o2", ticker |-> WT2, side |-> "no", fill_count |-> 2, no_price |-> 60],
      [order_id |-> "o3", ticker |-> WT3, side |-> "NO", fill_count |-> 1, price |-> 50],
      [order_id |-> "o4", ticker |-> WT1, side |-> "yes", fill_count |-> 0, yes_price |-> 35],
      [order_id |-> "o5", side |-> "yes", fill_count |-> 1, yes_price |-> 35],
      [order_id |-> "o6", ticker |-> WT2, side |-> "yes", fill_count |-> 1],
      [order_id |-> "o7", ticker |-> WT1, side |-> "no", fill_count |-> 1, no_price |-> 70] }

RECURSIVE OrderLists(_)
\* the lists of at most n orders
OrderLists(n) ==
    IF n = 0 THEN {<<>>}
    ELSE LET shorter == OrderLists(n - 1)
         IN  shorter \cup {Append(l, o) : l \in {x \in shorter : Len(x) = n - 1},
                                          o \in OrderPool}

\* the markets the API lists for an event, in the order it lists them
EventMarkets(event_ticker) ==
    IF event_ticker = <<"E">>
    THEN << [ticker |-> WT2, result |-> "no", subtitle |-> "22 or above"],
            [ticker |-> WT1, result |-> "yes", subtitle |-> "", title |-> "21 to 22"] >>
    ELSE IF event_ticker = <<"F">> THEN << [ticker |-> WT3, result |-> ""] >>
    ELSE <<>>

EventResponses(event_ticker) ==
    { Timeout, Answer(500, EmptyDict), Answer(200, EmptyDict),
      Answer(200, [markets |-> EventMarkets(event_ticker)]) }

MarketResponses ==
    { Timeout, Answer(404, EmptyDict), Answer(200, EmptyDict),
      Answer(200, [market |-> [result |-> ""]]),
      Answer(200, [market |-> [result |-> "yes", last_price |-> 99]]),
      Answer(200, [market |-> [result |-> "no", last_price |-> 0, yes_bid |-> 1]]) }

(***************************************************************************)
(* kalshi_past_bids_winfo.py: main.                                        *)
(***************************************************************************)
WinfoStart ==
    /\ w_pc = "start"
    /\ orders = <<>>
    /\ oi = 1
    /\ rows = <<>>
    /\ event_markets_cache = EmptyDict
    /\ market_cache = EmptyDict
    /\ sheet = None
    /\ w_error = ""
    /\ event_calls = <<>>
    /\ market_calls = <<>>

\* lines 211, 233 with an empty stored answer taken for a missing one
InCacheFilled(cache, key) == key \in DOMAIN cache /\ DOMAIN cache[key] # {}

\* lines 211, 233: key in cache
InCache(cache, key) == key \in DOMAIN cache

Put(cache, key, value) ==
    [k \in DOMAIN cache \cup {key} |-> IF k = key THEN value ELSE cache[k]]

\* lines 184-190: init_sheet, fetch_orders (raise_for_status, no handler)
FetchOrders ==
    /\ w_pc = "start"
    /\ \E ok \in BOOLEAN :
          IF ok
          THEN /\ orders' \in OrderLists(MaxOrders)
               /\ w_pc' = "loop"
               /\ UNCHANGED w_error
          ELSE /\ w_pc' = "crashed"
               /\ w_error' = "fetch_orders"
               /\ UNCHANGED orders
    /\ UNCHANGED <<oi, rows, event_markets_cache, market_cache, sheet, event_calls,
                   market_calls, tickerVars, bidVars, settleVars>>

\* lines 192-304: one pass of the loop
ProcessOrder ==
    /\ w_pc = "loop"
    /\ oi <= Len(orders)
    /\ LET o == orders[oi]
       IN  IF Skipped(o)
           THEN /\ oi' = oi + 1
                /\ UNCHANGED <<w_pc, rows, event_markets_cache, market_cache, w_error,
                               event_calls, market_calls>>
           ELSE
             LET ticker       == OrderTicker(o)[1]
                 event_ticker == derive_event_ticker(ticker)
                 event_cached == InCache(event_markets_cache, event_ticker)
                 cached       == InCache(market_cache, ticker)
             IN  \E er \in EventResponses(event_ticker), mr \in MarketResponses :
                    /\ event_calls' = IF event_cached THEN event_calls
                                      ELSE Append(event_calls, event_ticker)
                    /\ IF ~event_cached /\ er.timeout
                       THEN \* requests.get raised in fetch_event_markets
                            /\ w_pc' = "crashed"
                            /\ w_error' = "event_listing"
                            /\ UNCHANGED <<oi, rows, event_markets_cache, market_cache,
                                           market_calls>>
                       ELSE
                         /\ event_markets_cache' =
                               IF event_cached THEN event_markets_cache
                               ELSE Put(event_markets_cache, event_ticker,
                                        fetch_event_markets(er))
                         /\ market_calls' = IF cached THEN market_calls
                                            ELSE Append(market_calls, ticker)
                         /\ IF ~cached /\ mr.timeout
                            THEN \* requests.get raised in fetch_market
                                 /\ w_pc' = "crashed"
                                 /\ w_error' = "market_detail"
                                 /\ UNCHANGED <<oi, rows, market_cache>>
                            ELSE
                              /\ market_cache' =
                                    IF cached THEN market_cache
                                    ELSE Put(market_cache, ticker, fetch_market(mr))
                              /\ rows' = Append(rows,
                                    BuildRow(o, event_markets_cache'[event_ticker],
                                             market_cache'[ticker]))
                              /\ oi' = oi + 1
                              /\ UNCHANGED <<w_pc, w_error>>
    /\ UNCHANGED <<orders, sheet, tickerVars, bidVars, settleVars>>

\* lines 306-307: rebuild_sheet(ws, rows)
RebuildSheet ==
    /\ w_pc = "loop"
    /\ oi > Len(orders)
    /\ sheet' = Some(rows)
    /\ w_pc' = "done"
    /\ UNCHANGED <<orders, oi, rows, event_markets_cache, market_cache, w_error,
                   event_calls, market_calls, tickerVars, bidVars, settleVars>>

(***************************************************************************)
(* Settlement of one fill: the loop body of main for one order whose       *)
(* market-detail request was answered.                                     *)
(***************************************************************************)
\* the orders with a side, a fill count and the price of that side
Fills ==
    {[ticker |-> WT1, side |-> "yes", fill_count |-> n, yes_price |-> c] :
        n \in 1..MaxShares, c \in 0..MaxPrice}
    \cup
    {[ticker |-> WT1, side |-> "no", fill_count |-> n, no_price |-> c] :
        n \in 1..MaxShares, c \in 0..MaxPrice}

\* the dicts of a market detail: each field missing or present
MarketDicts ==
    {Merge(Merge(a, b), Merge(c, d)) :
        a \in {EmptyDict} \cup {[result |-> w] : w \in {"", "yes", "no", "YES", "void"}},
        b \in {EmptyDict} \cup {[last_price |-> q] : q \in {0, 40}},
        c \in {EmptyDict} \cup {[yes_bid |-> q] : q \in {0, 40}},
        d \in {EmptyDict} \cup {[yes_ask |-> q] : q \in {0, 40}}}

DetailAnswers ==
    {Answer(404, EmptyDict), Answer(200, EmptyDict)}
    \cup {Answer(200, [market |-> d]) : d \in MarketDicts}

SettleStart ==
    /\ st_order \in Fills
    /\ st_response \in DetailAnswers
    /\ st_row = Unset

\* lines 233-304 for st_order: fetch_market, then the row
Settle ==
    /\ st_row = Unset
    /\ st_row' = Result(BuildRow(st_order, <<>>, fetch_market(st_response)))
    /\ UNCHANGED <<st_order, st_response, tickerVars, bidVars, winfoVars>>

(***************************************************************************)
(* The specifications.                                                     *)
(***************************************************************************)
TickerIdle ==
    /\ tk_ticker = <<>>
    /\ tk_strike = Unset
    /\ tk_key = Unset
    /\ tk_event = Unset

SettleIdle ==
    /\ st_order = EmptyDict
    /\ st_response = Timeout
    /\ st_row = Unset

\* a run of ka_bid.py
Init ==
    /\ \E sg \in {"ok", "bad_key", "sign_fails"} : BidStart(sg)
    /\ TickerIdle
    /\ WinfoStart
    /\ SettleIdle

Next == Observe \/ ListMarkets \/ ResolveBracket \/ SubmitOrder \/ Finish

Spec == Init /\ [][Next]_vars

\* main is sequential code: it always takes its next step
FairSpec == Spec /\ WF_vars(Next)

\* a run of kalshi_past_bids_winfo.py
WinfoInit ==
    /\ WinfoStart
    /\ BidStart("ok")
    /\ TickerIdle
    /\ SettleIdle

WinfoNext == FetchOrders \/ ProcessOrder \/ RebuildSheet

WinfoSpec == WinfoInit /\ [][WinfoNext]_vars

\* the settlement of one fill
SettleInit ==
    /\ SettleStart
    /\ BidStart("ok")
    /\ TickerIdle
    /\ WinfoStart

SettleSpec == SettleInit /\ [][Settle]_vars

\* the strike parsers on one ticker
TickerInit ==
    /\ tk_ticker \in TickerInputs
    /\ tk_strike = Unset
    /\ tk_key = Unset
    /\ tk_event = Unset
    /\ BidStart("ok")
    /\ WinfoStart
    /\ SettleIdle

StrikeFromTicker ==
    /\ tk_strike = Unset
    /\ tk_strike' = Result(strike_from_ticker(tk_ticker))
    /\ UNCHANGED <<tk_ticker, tk_key, tk_event, bidVars, winfoVars, settleVars>>

StrikeSortKey ==
    /\ tk_key = Unset
    /\ tk_key' = Result(strike_sort_key(tk_ticker))
    /\ UNCHANGED <<tk_ticker, tk_strike, tk_event, bidVars, winfoVars, settleVars>>

TickerNext == StrikeFromTicker \/ StrikeSortKey

TickerSpec == TickerInit /\ [][TickerNext]_vars

\* derive_event_ticker on one ticker
DeriveEventTicker ==
    /\ tk_event = Unset
    /\ tk_event' = Result(derive_event_ticker(tk_ticker))
    /\ UNCHANGED <<tk_ticker, tk_strike, tk_key, bidVars, winfoVars, settleVars>>

EventSpec == TickerInit /\ [][DeriveEventTicker]_vars

(***************************************************************************)
(* Properties of ka_bid.py main.                                           *)
(***************************************************************************)
\* bracket i of parsed holds the observation: strike <= temp < strike + 1
Holds(i) == parsed[i].strike <= 2 * temp[1] /\ 2 * temp[1] < parsed[i].strike + 2

\* the selection has run on a non-empty list of brackets
Selected == parsed # <<>> /\ temp # None

\* min_strike <= temp < max_strike + 1
InRange ==
    /\ parsed[1].strike <= 2 * temp[1]
    /\ 2 * temp[1] < parsed[Len(parsed)].strike + 2

\* the loop chose the first bracket that holds the observation, not the fallback
ChoseHolding ==
    /\ ~fallback
    /\ \E i \in 1..Len(parsed) :
          /\ chosen_ticker = Some(parsed[i].ticker)
          /\ Holds(i)
          /\ \A j \in 1..(i - 1) : ~Holds(j)

\* consecutive strikes are at most one degree apart
Contiguous == \A i \in 1..(Len(parsed) - 1) : parsed[i + 1].strike - parsed[i].strike <= 2

C2_BelowRangeNotSelected ==
    (Selected /\ 2 * temp[1] < parsed[1].strike) => (~fallback /\ chosen_ticker = None)

\* C3: an observation at or above strike + 1 of every bracket selects the
\* last bracket in ascending order, which has the highest strike, as fallback.
C3_AboveRangeFallsBack ==
    (Selected /\ \A i \in 1..Len(parsed) : 2 * temp[1] >= parsed[i].strike + 2)
    => /\ fallback
       /\ chosen_ticker = Some(parsed[Len(parsed)].ticker)
       /\ \A i \in 1..Len(parsed) : parsed[i].strike <= parsed[Len(parsed)].strike
       /\ \A i \in 1..(Len(parsed) - 1) : parsed[i].strike <= parsed[i + 1].strike

C3_Witness ==
    /\ Selected
    /\ Len(parsed) = 2
    /\ parsed[1].strike < parsed[2].strike
    /\ 2 * temp[1] >= parsed[2].strike + 2
    /\ fallback
    /\ chosen_ticker = Some(parsed[2].ticker)

\* C4: no market-listing GET and no order POST is issued with an empty
\* header set: a signer failure keeps the request from being sent.
C4_NoRequestWithoutHeaders ==
    \A i \in 1..Len(sent) : sent[i].headers # EmptyHeaders

IsPost(q) == q.method = "POST"
IsGet(q) == q.method = "GET"

\* the listing was answered and no market of the day was in it
NoMarketOfDay == listing' # None /\ listing'[1].kind = "ok" /\ markets' = <<>>

\* no market of the day has a strike
NoStrikeParsed == ParseMarkets(markets) = <<>>

\* C8: when the strike-bearing brackets of a series are empty (no market of
\* the day in the listing, or none with a parseable strike) the step that
\* finds it chooses no ticker, submits no order, does not repeat the listing
\* request and moves main to the next series.
C8_EmptyBracketSet ==
    [][((pc = "list" /\ NoMarketOfDay) \/ (pc = "resolve" /\ NoStrikeParsed))
       => /\ chosen_ticker' = None
          /\ \A i \in 1..Len(sent') : ~IsPost(sent'[i])
          /\ Cardinality({i \in 1..Len(sent') : IsGet(sent'[i])}) = 1
          /\ pc' = "observe"
          /\ idx' = idx + 1
          /\ exit_code' = None]_vars

\* a series with markets of the day, none of which yielded a strike, is over
C8_Witness ==
    /\ pc = "observe"
    /\ idx > 1
    /\ markets # <<>>
    /\ parsed = <<>>
    /\ chosen_ticker = None
    /\ MARKETS[idx - 1] \in failed

IsPrefix(a, b) == Len(a) <= Len(b) /\ a = SubSeq(b, 1, Len(a))

\* C9: whatever fails for the single series, main attempts every series of
\* MARKETS in order and returns normally, with exit status 0.
C9_EverySeriesAttempted ==
    /\ [](IsPrefix(attempted, MARKETS))
    /\ [](exit_code \in {None, Some(0)})
    /\ <>(pc = "done" /\ attempted = MARKETS /\ exit_code = Some(0))

\* main has returned after every series failed
C9_Witness ==
    /\ pc = "done"
    /\ attempted = MARKETS
    /\ failed = {MARKETS[i] : i \in 1..NSeries}
    /\ exit_code = Some(0)

(***************************************************************************)
(* Properties of the strike parsers.                                       *)
(***************************************************************************)
RECURSIVE NumberOf(_)
\* the number a run of digits writes
NumberOf(ds) ==
    IF ds = <<>> THEN 0
    ELSE 10 * NumberOf(SubSeq(ds, 1, Len(ds) - 1)) + DigitVal(ds[Len(ds)])

\* the signed number, in halves, when t from position k on is a bucket suffix
SuffixAt(t, k) ==
    LET rest == SubSeq(t, k + 2, Len(t))
        neg  == rest # <<>> /\ rest[1] = "-"
        num  == IF neg THEN Tail(rest) ELSE rest
        half == Len(num) >= 3 /\ num[Len(num) - 1] = "." /\ num[Len(num)] = "5"
        digs == IF half THEN SubSeq(num, 1, Len(num) - 2) ELSE num
        mag  == 2 * NumberOf(digs) + (IF half THEN 1 ELSE 0)
    IN  IF /\ t[k] = "-"
           /\ t[k + 1] \in {"B", "T"}
           /\ digs # <<>>
           /\ \A i \in 1..Len(digs) : IsDigit(digs[i])
        THEN Some(IF neg THEN 0 - mag ELSE mag)
        ELSE None

\* the signed number of the bucket suffix t ends in, None when it ends in none
SuffixNumber(t) ==
    LET at == {k \in 1..(Len(t) - 2) : SuffixAt(t, k) # None}
    IN  IF at = {} THEN None ELSE SuffixAt(t, CHOOSE k \in at : TRUE)

\* C5: both strike parsers return the signed number of the bucket suffix the
\* ticker ends in, and the "no strike" sentinel for every other ticker
C5_StrikeParsed ==
    /\ tk_strike.set => tk_strike.val = SuffixNumber(tk_ticker)
    /\ tk_key.set =>
          tk_key.val = IF SuffixNumber(tk_ticker) = None THEN NoStrikeKey
                       ELSE SuffixNumber(tk_ticker)[1]

(***************************************************************************)
(* Properties of the settlement.                                           *)
(***************************************************************************)
\* the cents a money text stands for
MoneyCents(text) ==
    LET neg  == text[1] = "-"
        body == IF neg THEN Tail(text) ELSE text
        n    == Len(body)
        mag  == 100 * NumberOf(SubSeq(body, 1, n - 3))
                + 10 * DigitVal(body[n - 1]) + DigitVal(body[n])
    IN  IF neg THEN 0 - mag ELSE mag

\* the result field of the market detail, "" when there is none to read
AnsweredResult ==
    IF /\ st_response.code = 200
       /\ "market" \in DOMAIN st_response.body
       /\ "result" \in DOMAIN st_response.body.market
    THEN st_response.body.market.result
    ELSE ""

FillPrice == IF st_order.side = "yes" THEN st_order.yes_price ELSE st_order.no_price

\* C6: a fill whose market result is YES or NO is labelled WON exactly when
\* its side is the result, LOST otherwise, and its pnl in cents is
\* (100 - price) * shares when WON and -(price * shares) when LOST
C6_SettledLabelAndPnl ==
    (st_row.set /\ AnsweredResult \in {"yes", "no", "YES"}) =>
        LET won == Lower(AnsweredResult) = st_order.side
        IN  /\ st_row.val.won_lost = IF won THEN "WON" ELSE "LOST"
            /\ MoneyCents(st_row.val.pnl) =
                  IF won THEN (100 - FillPrice) * st_order.fill_count
                  ELSE 0 - (FillPrice * st_order.fill_count)

C6_Witness ==
    /\ st_row.set
    /\ AnsweredResult = "YES"
    /\ st_order.side = "yes"
    /\ st_order.fill_count = 2
    /\ FillPrice = 35
    /\ st_row.val.won_lost = "WON"
    /\ st_row.val.pnl = <<"1", ".", "3", "0">>

\* C7: a fill whose market result is empty, missing or could not be fetched is
\* pending: its label is left blank and its pnl is left blank, so no WON or
\* LOST label and no number is recorded for it
C7_UnresolvedStaysPending ==
    (st_row.set /\ AnsweredResult = "") =>
        /\ st_row.val.won_lost = ""
        /\ st_row.val.won_lost \notin {"WON", "LOST"}
        /\ st_row.val.pnl = <<>>

C7_Witness ==
    /\ st_row.set
    /\ st_response.code = 404
    /\ st_order.side = "no"
    /\ st_row.val.market_result = ""
    /\ st_row.val.won_lost = ""
    /\ st_row.val.pnl = <<>>

(***************************************************************************)
(* Properties of kalshi_past_bids_winfo.py main.                           *)
(***************************************************************************)
\* C10: once the orders are fetched, a run that has stopped has processed
\* every order and has rebuilt the sheet, whatever the event-listing and
\* market-detail calls answered
C10_FailureIsolated ==
    (w_pc \in {"done", "crashed"} /\ w_error # "fetch_orders") =>
        /\ oi > Len(orders)
        /\ sheet # None

(***************************************************************************)
(* Properties of ka_bid.py main: the observation and the order.            *)
(***************************************************************************)
\* C11: a series whose observation is null is left at once: no headers are
\* signed, no request is sent, no bracket is parsed or chosen for it, and
\* the listing, resolving and ordering steps only run with an observation
C11_NullObservationShortCircuits ==
    /\ [][(pc = "observe" /\ attempted' # attempted /\ temp' = None) =>
             /\ pc' = "observe"
             /\ idx' = idx + 1
             /\ headers' = EmptyHeaders
             /\ sent' = <<>>
             /\ listing' = None
             /\ parsed' = <<>>
             /\ chosen_ticker' = None]_vars
    /\ [](pc \in {"list", "resolve", "order"} => temp # None)
    /\ [](temp = None => sent = <<>>)

C11_Witness ==
    /\ temp = None
    /\ attempted = <<MARKETS[1]>>
    /\ failed = {MARKETS[1]}
    /\ pc = "observe"
    /\ idx = 2
    /\ sent = <<>>
    /\ chosen_ticker = None

(***************************************************************************)
(* Properties of derive_event_ticker.                                      *)
(***************************************************************************)
\* the positions at which a bucket suffix of t starts (at most one)
SuffixStarts(t) == {k \in 1..(Len(t) - 2) : SuffixAt(t, k) # None}

Dashes(t) == {i \in 1..Len(t) : t[i] = "-"}

HasLineBreak(t) == \E i \in 1..Len(t) : t[i] = NL

\* C12: for a ticker (a text without line break) that ends in a bucket
\* suffix, derive_event_ticker returns the ticker without that suffix; for
\* any other ticker with a '-' it returns what stands before the last '-';
\* it returns a value for every ticker
C12_EventTickerDerived ==
    /\ ENABLED DeriveEventTicker \/ tk_event.set
    /\ (tk_event.set /\ ~HasLineBreak(tk_ticker)) =>
          IF SuffixStarts(tk_ticker) # {}
          THEN \A k \in SuffixStarts(tk_ticker) :
                  tk_event.val = SubSeq(tk_ticker, 1, k - 1)
          ELSE IF Dashes(tk_ticker) # {}
          THEN \E i \in Dashes(tk_ticker) :
                  /\ \A j \in Dashes(tk_ticker) : j <= i
                  /\ tk_event.val = SubSeq(tk_ticker, 1, i - 1)
          ELSE tk_event.val = tk_ticker

C12_Witness ==
    /\ tk_event.set
    /\ tk_ticker = <<"K", "-", "T", "-", "1">>
    /\ tk_event.val = <<"K">>

(***************************************************************************)
(* Properties of the caches of kalshi_past_bids_winfo.py main.             *)
(***************************************************************************)
NoRepeat(calls) ==
    \A i, j \in 1..Len(calls) : i # j => calls[i] # calls[j]

\* C13: in one run the event listing is requested at most once for an event
\* ticker and the market detail at most once for a ticker, empty answers
\* included, and the rows of one event carry the labels of one bracket list
C13_OneCallPerKey ==
    /\ NoRepeat(event_calls)
    /\ NoRepeat(market_calls)
    /\ \A e \in DOMAIN event_markets_cache :
          \E i \in 1..Len(event_calls) : event_calls[i] = e
    /\ \A i, j \in 1..Len(rows) :
          rows[i].event_ticker = rows[j].event_ticker =>
             /\ rows[i].option_labels = rows[j].option_labels
             /\ rows[i].option_labels =
                   OptionLabels(event_markets_cache[rows[i].event_ticker])

C13_Witness ==
    /\ Len(rows) = 2
    /\ rows[1].ticker = WT1
    /\ rows[2].ticker = WT1
    /\ rows[1].order_id # rows[2].order_id
    /\ event_calls = << <<"E">> >>
    /\ market_calls = <<WT1>>
    /\ event_markets_cache[<<"E">>] = <<>>
    /\ DOMAIN market_cache[WT1] = {}

(***************************************************************************)
(* Properties of the implied probability.                                  *)
(***************************************************************************)
\* the market of the detail answer, empty when there is none to read
AnsweredMarket ==
    IF st_response.code = 200 /\ "market" \in DOMAIN st_response.body
    THEN st_response.body.market
    ELSE EmptyDict

\* the first value that is present among last price, best bid and best ask
FirstPresentQuote ==
    LET quotes  == <<Get(AnsweredMarket, "last_price"), Get(AnsweredMarket, "yes_bid"),
                     Get(AnsweredMarket, "yes_ask")>>
        present == {i \in 1..3 : quotes[i] # None}
    IN  IF present = {} THEN None
        ELSE quotes[CHOOSE i \in present : \A j \in present : i <= j]

\* C14: the live quote of a row is the first present value among last
\* price, best bid and best ask, and with a quote q the implied probability
\* in hundredths is q for a YES fill and 100 - q for a NO fill, whatever the
\* market result is
C14_ImpliedFromFirstPresent ==
    st_row.set =>
        /\ st_row.val.current_yes = FirstPresentQuote
        /\ FirstPresentQuote # None =>
              st_row.val.implied_pct =
                 Some(IF st_order.side = "yes" THEN FirstPresentQuote[1]
                      ELSE 100 - FirstPresentQuote[1])

(***************************************************************************)
(* Properties of the orders of ka_bid.py main.                             *)
(***************************************************************************)
Posts(requests) == {i \in 1..Len(requests) : IsPost(requests[i])}

\* the tickers of the answered listing of the series
ListingTickers ==
    IF listing # None /\ listing[1].kind = "ok"
    THEN {listing[1].markets[i] : i \in 1..Len(listing[1].markets)}
    ELSE {}

\* C15: an order is posted for a series only with LIVE_TRADING, an
\* observation and an answered listing; its ticker is a market of that
\* listing that holds the day fragment and ends in a strike; and a series
\* gets at most one order: the step that posts it moves on to the next
\* series, and main never goes back to a series
C15_OrderSafety ==
    /\ [](\A i \in Posts(sent) :
             /\ LIVE_TRADING
             /\ temp # None
             /\ listing # None /\ listing[1].kind = "ok"
             /\ sent[i].ticker \in ListingTickers
             /\ Contains(sent[i].ticker, kalshi_day)
             /\ SuffixNumber(sent[i].ticker) # None)
    /\ [](Cardinality(Posts(sent)) <= 1)
    /\ [][Posts(sent') # {} /\ sent' # sent =>
             /\ \A i \in Posts(sent') : sent'[i].series = MARKETS[idx]
             /\ idx' = idx + 1]_vars
    /\ [][idx' >= idx]_vars
    /\ [](\A i, j \in 1..NSeries : i # j => MARKETS[i] # MARKETS[j])

C15_Witness ==
    /\ pc = "observe"
    /\ idx = 2
    /\ temp = Some(22)
    /\ Len(sent) = 2
    /\ IsPost(sent[2])
    /\ sent[2].series = MARKETS[1]
    /\ sent[2].ticker = Tk(kalshi_day, <<"-", "B", "2", "1", ".", "5">>)
    /\ failed = {}

====
